---- MODULE Spec2Model ----
(***************************************************************************)
(* Model of amadeus_flight_search.py: one scheduled run at a time of the   *)
(* pipeline  client construction -> find_cheap_destinations ->             *)
(* save_results_to_csv -> analyze_and_display -> exit, over the one file   *)
(* cheap_flights.csv that survives from run to run.                        *)
(*                                                                         *)
(* Python values are modelled with their dynamic type: price.total is a    *)
(* string, a number or absent, and the DataFrame column 'price' holds      *)
(* whatever the offers held.  The CSV file holds text: a cell written from *)
(* "10" and one written from 10 are the same cell.                         *)
(***************************************************************************)
EXTENDS Integers, Sequences, FiniteSets, TLC

\* ------------------------------------------------------------------ bounds
MaxRuns == 3        \* runs of the process that are explored
MaxOffers == 2      \* offers in one API response
MaxRows == 11       \* rows of a DataFrame handed to analyze_and_display
VariedLen == 3      \* leading rows of that DataFrame drawn from ReportRows

\* ------------------------------------------------------- program constants
TopN == 10                      \* df_valid.head(10)
NoDataFound == "No data found"  \* destination of the placeholder record
SentinelNote == "Test environment or no results available"

\* ------------------------------------------------------------ Python values
None == [t |-> "None"]
List(s) == [t |-> "list", v |-> s]
Str(n) == [t |-> "str", v |-> n]     \* the decimal string of n, e.g. "2500"
Num(n) == [t |-> "num", v |-> n]     \* the number n
Absent == [t |-> "absent"]           \* key missing from the dict

\* Offers the pricing capability can deliver (response.data entries).
Offer(dest, total) ==
    [destination |-> dest, departureDate |-> "2025-05-01",
     returnDate |-> "2025-05-08", total |-> total]

Offers ==
    { Offer("TYO", Str(9)), Offer("TYO", Str(10)), Offer("BKK", Str(10)),
      Offer("TYO", Absent), Offer("BKK", Num(5)) }

RECURSIVE SeqsUpTo(_, _)
SeqsUpTo(S, n) ==
    IF n = 0 THEN { <<>> }
    ELSE LET shorter == SeqsUpTo(S, n - 1)
         IN  shorter \cup { Append(s, x) : s \in { q \in shorter : Len(q) = n - 1 }, x \in S }

Batches == SeqsUpTo(Offers, MaxOffers)

\* ------------------------------------------------------ comparison of prices
RECURSIVE Digits(_)
Digits(n) == IF n < 10 THEN <<n>> ELSE Append(Digits(n \div 10), n % 10)

\* Python's str < str: code point by code point, a proper prefix is smaller.
RECURSIVE LexLess(_, _)
LexLess(s, u) ==
    IF u = <<>> THEN FALSE
    ELSE IF s = <<>> THEN TRUE
    ELSE IF Head(s) # Head(u) THEN Head(s) < Head(u)
    ELSE LexLess(Tail(s), Tail(u))

\* a < b on two cells of the 'price' column of equal type.
PriceLess(a, b) ==
    IF a.t = "str" THEN LexLess(Digits(a.v), Digits(b.v)) ELSE a.v < b.v

\* '<' between str and int raises TypeError: one comparison of that kind is
\* made as soon as the column holds both types and more than one row.
MixedTypes(rows) == \E i, j \in DOMAIN rows : rows[i].price.t # rows[j].price.t

\* df.sort_values('price'): argsort of the column; on the at most 16 rows
\* explored here numpy's quicksort is its insertion sort, which is stable.
RECURSIVE InsertSorted(_, _)
InsertSorted(sorted, x) ==
    IF sorted = <<>> THEN <<x>>
    ELSE LET last == sorted[Len(sorted)]
         IN  IF PriceLess(x.price, last.price)
             THEN Append(InsertSorted(SubSeq(sorted, 1, Len(sorted) - 1), x), last)
             ELSE Append(sorted, x)

RECURSIVE SortValues(_)
SortValues(rows) ==
    IF rows = <<>> THEN <<>>
    ELSE InsertSorted(SortValues(SubSeq(rows, 1, Len(rows) - 1)), rows[Len(rows)])

\* ------------------------------------------------------------- the CSV file
HeaderCols == <<"destination", "departure_date", "return_date", "price", "search_date">>
SentinelCols == Append(HeaderCols, "note")
HeaderLine(cols) == [kind |-> "header", cols |-> cols]

\* One DataFrame row as a line of text: the price cell is the printed value,
\* whatever its Python type was.
CsvLine(r) ==
    [kind |-> "row", destination |-> r.destination,
     departure_date |-> r.departure_date, return_date |-> r.return_date,
     price |-> r.price.v, search_date |-> r.search_date]

\* The placeholder DataFrame has a sixth column, 'note'.
CsvLineWithNote(r) ==
    [kind |-> "row", destination |-> r.destination,
     departure_date |-> r.departure_date, return_date |-> r.return_date,
     price |-> r.price.v, search_date |-> r.search_date, note |-> r.note]

CsvLines(rows) ==
    [i \in DOMAIN rows |->
        IF "note" \in DOMAIN rows[i] THEN CsvLineWithNote(rows[i]) ELSE CsvLine(rows[i])]

NoFile == [exists |-> FALSE, lines |-> <<>>]

\* df.to_csv(filename, index=False): create or truncate, header then rows.
ToCsvWrite(cols, rows) ==
    [exists |-> TRUE, lines |-> <<HeaderLine(cols)>> \o CsvLines(rows)]

\* df.to_csv(filename, mode='a', header=False, index=False)
ToCsvAppend(f, rows) ==
    [exists |-> TRUE, lines |-> f.lines \o CsvLines(rows)]

\* ------------------------------------------------------- save_results_to_csv
\* flight.get('price', {}).get('total', 0)
GetTotal(flight) == IF flight.total.t = "absent" THEN Num(0) ELSE flight.total

\* One offer as a row of the DataFrame 'flights'.
FlightRow(flight, now) ==
    [destination |-> flight.destination, departure_date |-> flight.departureDate,
     return_date |-> flight.returnDate, price |-> GetTotal(flight),
     search_date |-> now]

Flights(data, now) == [i \in DOMAIN data |-> FlightRow(data[i], now)]

\* The placeholder record written when there is nothing to save.
SentinelRow(now) ==
    [destination |-> NoDataFound, departure_date |-> "", return_date |-> "",
     price |-> Num(0), search_date |-> now, note |-> SentinelNote]

\* Mutant: the placeholder is appended to an existing file like a batch.
WriteSentinelAppend(f, now) ==
    IF f.exists THEN ToCsvAppend(f, <<SentinelRow(now)>>)
    ELSE ToCsvWrite(SentinelCols, <<SentinelRow(now)>>)

\* df.to_csv(filename, index=False) of the placeholder DataFrame.
WriteSentinel(f, now) == ToCsvWrite(SentinelCols, <<SentinelRow(now)>>)

\* Mutant: the batch is written with mode 'w' whether the file exists or not.
WriteBatchOverwrite(f, rows) == ToCsvWrite(HeaderCols, rows)

\* Mutant: header=False is lost from the append.
WriteBatchHeaderAgain(f, rows) ==
    IF f.exists
    THEN [exists |-> TRUE, lines |-> f.lines \o <<HeaderLine(HeaderCols)>> \o CsvLines(rows)]
    ELSE ToCsvWrite(HeaderCols, rows)

\* if os.path.exists(filename): append without header, else create.
WriteBatch(f, rows) ==
    IF f.exists THEN ToCsvAppend(f, rows) ELSE ToCsvWrite(HeaderCols, rows)

\* The call save_results_to_csv(data, filename) on file f at time now, the
\* one to_csv it makes ending as io says ("ok", or "fail": OSError, file
\* untouched).  file: the file afterwards; ret: the returned DataFrame or
\* None; log: the lines printed; raised: an exception left the function;
\* calls: how each to_csv call made ended.
SaveResultsToCsv(data, f, now, io) ==
    IF Len(data) = 0
    THEN IF io = "fail"
         THEN [file |-> f, ret |-> None, raised |-> TRUE, calls |-> <<io>>,
               log |-> <<"saving", "no_flight_data">>]
         ELSE [file |-> WriteSentinel(f, now), ret |-> List(<<SentinelRow(now)>>),
               raised |-> FALSE, calls |-> <<io>>,
               log |-> <<"saving", "no_flight_data", "empty_record_created">>]
    ELSE LET flights == Flights(data, now)
             branch == IF f.exists THEN "appending" ELSE "creating"
         IN  IF MixedTypes(flights)
             THEN [file |-> f, ret |-> None, raised |-> FALSE, calls |-> <<>>,
                   log |-> <<"saving", "save_error">>]
             ELSE IF io = "fail"
             THEN [file |-> f, ret |-> None, raised |-> FALSE, calls |-> <<io>>,
                   log |-> <<"saving", branch, "save_error">>]
             ELSE [file |-> WriteBatch(f, SortValues(flights)),
                   ret |-> List(SortValues(flights)), raised |-> FALSE,
                   calls |-> <<io>>, log |-> <<"saving", branch, "saved">>]

\* ------------------------------------------------------- analyze_and_display
\* Mutant: the placeholder rows are not filtered out.
DfValidKeepAll(rows) == rows

\* df[df['destination'] != 'No data found']
DfValid(rows) == SelectSeq(rows, LAMBDA r : r.destination # NoDataFound)

\* df_valid.head(n)
DfHead(rows, n) == SubSeq(rows, 1, IF Len(rows) < n THEN Len(rows) ELSE n)

\* f"{x:.2f}" of the number num/den, as the count of hundredths printed:
\* the nearest one, an exact tie (a binary fraction) going to the even one.
Fmt2(num, den) ==
    LET q == (100 * num) \div den
        r == (100 * num) % den
    IN  IF 2 * r < den THEN q
        ELSE IF 2 * r > den THEN q + 1
        ELSE IF q % 2 = 0 THEN q ELSE q + 1

\* The rows of the listing loop that print in full: f"{price:.2f}" raises
\* ValueError on the first str price, which ends the loop and the function.
RECURSIVE PrintedRows(_)
PrintedRows(rows) ==
    IF rows = <<>> \/ rows[1].price.t = "str" THEN <<>>
    ELSE <<[destination |-> rows[1].destination, price |-> Fmt2(rows[1].price.v, 1),
            departure_date |-> rows[1].departure_date,
            return_date |-> rows[1].return_date]>> \o PrintedRows(Tail(rows))

RECURSIVE PriceSum(_)
PriceSum(rows) == IF rows = <<>> THEN 0 ELSE rows[1].price.v + PriceSum(Tail(rows))

PriceMin(rows) ==
    CHOOSE m \in { rows[i].price.v : i \in DOMAIN rows } :
        \A i \in DOMAIN rows : m <= rows[i].price.v

PriceMax(rows) ==
    CHOOSE m \in { rows[i].price.v : i \in DOMAIN rows } :
        \A i \in DOMAIN rows : m >= rows[i].price.v

NoStats == [t |-> "none"]

\* The call analyze_and_display(df).  log: the notices and banners printed;
\* listing: the entries printed in full, in the order printed; stats: the
\* statistics block; raised: an exception left the function.
AnalyzeAndDisplay(df) ==
    IF df = None \/ Len(df.v) = 0
    THEN [log |-> <<"no_data">>, listing |-> <<>>, stats |-> NoStats, raised |-> FALSE]
    ELSE LET df_valid == DfValid(df.v)
             top_10 == DfHead(df_valid, TopN)
             printed == PrintedRows(top_10)
         IN  IF Len(df_valid) = 0
             THEN [log |-> <<"no_valid_data">>, listing |-> <<>>, stats |-> NoStats,
                   raised |-> FALSE]
             ELSE IF Len(printed) < Len(top_10)
             THEN [log |-> <<"top_10">>, listing |-> printed, stats |-> NoStats,
                   raised |-> TRUE]
             ELSE IF \E i \in DOMAIN df_valid : df_valid[i].price.t = "str"
             THEN \* min() of a column of both types raises TypeError
                  [log |-> <<"top_10", "statistics">>, listing |-> printed,
                   stats |-> [t |-> "count", count |-> Len(df_valid)], raised |-> TRUE]
             ELSE [log |-> <<"top_10", "statistics">>, listing |-> printed,
                   stats |-> [t |-> "full", count |-> Len(df_valid),
                              min |-> Fmt2(PriceMin(df_valid), 1),
                              max |-> Fmt2(PriceMax(df_valid), 1),
                              mean |-> Fmt2(PriceSum(df_valid), Len(df_valid))],
                   raised |-> FALSE]

NoOutput == [listing |-> <<>>, stats |-> NoStats]

\* ------------------------------------------------------------------- state
VARIABLES
    pc,           \* where the process is; "idle"/"exited" between runs
    run,          \* runs started so far; stands for datetime.now() of the run
    file,         \* cheap_flights.csv
    fileAtStart,  \* the file as the current run found it
    results,      \* main's 'results'
    df,           \* the DataFrame handed to analyze_and_display
    out,          \* what analyze_and_display printed: listing and statistics
    log,          \* the notices printed by the current run, in order
    exitCode,     \* "running", "0" or "1"
    writes        \* how each to_csv call of the current run ended

vars == <<pc, run, file, fileAtStart, results, df, out, log, exitCode, writes>>

Init ==
    /\ pc = "idle"
    /\ run = 0
    /\ file = NoFile
    /\ fileAtStart = NoFile
    /\ results = None
    /\ df = None
    /\ out = NoOutput
    /\ log = <<>>
    /\ exitCode = "running"
    /\ writes = <<>>

\* The scheduler starts the next run once the previous one has ended.
Start ==
    /\ pc \in {"idle", "exited"}
    /\ run < MaxRuns
    /\ pc' = "client"
    /\ run' = run + 1
    /\ fileAtStart' = file
    /\ results' = None
    /\ df' = None
    /\ out' = NoOutput
    /\ log' = <<>>
    /\ exitCode' = "running"
    /\ writes' = <<>>
    /\ UNCHANGED file

\* Module level: Client(...) raises when a credential is missing; exit(1).
ClientInit(ok) ==
    /\ pc = "client"
    /\ IF ok
       THEN /\ log' = Append(log, "connected")
            /\ pc' = "search"
            /\ UNCHANGED exitCode
       ELSE /\ log' = Append(log, "connect_failed")
            /\ pc' = "exited"
            /\ exitCode' = "1"
    /\ UNCHANGED <<run, file, fileAtStart, results, df, out, writes>>

\* What the pricing capability can answer to the one query.
Responses ==
    { [t |-> "data", v |-> b] : b \in Batches }
        \cup { [t |-> "ResponseError"], [t |-> "Exception"] }

\* The value find_cheap_destinations returns: response.data, or None from
\* either except clause.
SearchReturn(resp) == IF resp.t = "data" THEN List(resp.v) ELSE None

SearchLog(resp) ==
    IF resp.t = "data" THEN <<"searching", "request_ok">>
    ELSE IF resp.t = "ResponseError" THEN <<"searching", "api_error">>
    ELSE <<"searching", "unexpected_error">>

FindCheapDestinations(resp) ==
    /\ pc = "search"
    /\ results' = SearchReturn(resp)
    /\ log' = log \o SearchLog(resp)
    /\ pc' = "branch"
    /\ UNCHANGED <<run, file, fileAtStart, df, out, exitCode, writes>>

\* Python truthiness of 'results': None and [] are false.
Truthy(x) == x # None /\ Len(x.v) > 0

\* Mutant: a failed search (None) is treated as a failure of the run.
BranchTargetFailOnNone(res) ==
    IF res = None THEN "except" ELSE IF Len(res.v) > 0 THEN "save" ELSE "save_empty"

\* main: if results: ... else: ...
BranchTarget(res) == IF Truthy(res) THEN "save" ELSE "save_empty"

MainBranch ==
    /\ pc = "branch"
    /\ pc' = BranchTarget(results)
    /\ log' = Append(log, IF Truthy(results) THEN "found" ELSE "nothing_found")
    /\ UNCHANGED <<run, file, fileAtStart, results, df, out, exitCode, writes>>

\* df = save_results_to_csv(results, output_file)
SaveData(io) ==
    /\ pc = "save"
    /\ LET r == SaveResultsToCsv(results.v, file, run, io)
       IN  /\ file' = r.file
           /\ df' = r.ret
           /\ log' = log \o r.log
           /\ writes' = writes \o r.calls
           /\ pc' = IF r.raised THEN "except" ELSE "report"
    /\ UNCHANGED <<run, fileAtStart, results, out, exitCode>>

\* save_results_to_csv([], output_file); the returned DataFrame is dropped.
SaveEmpty(io) ==
    /\ pc = "save_empty"
    /\ LET r == SaveResultsToCsv(<<>>, file, run, io)
       IN  /\ file' = r.file
           /\ log' = log \o r.log
           /\ writes' = writes \o r.calls
           /\ pc' = IF r.raised THEN "except" ELSE "finish"
    /\ UNCHANGED <<run, fileAtStart, results, df, out, exitCode>>

\* analyze_and_display(df)
Report ==
    /\ pc = "report"
    /\ LET a == AnalyzeAndDisplay(df)
       IN  /\ out' = [listing |-> a.listing, stats |-> a.stats]
           /\ log' = log \o a.log
           /\ pc' = IF a.raised THEN "except" ELSE "finish"
    /\ UNCHANGED <<run, file, fileAtStart, results, df, exitCode, writes>>

\* The closing banner; main returns and the interpreter exits with 0.
Finish ==
    /\ pc = "finish"
    /\ log' = Append(log, "finished")
    /\ exitCode' = "0"
    /\ pc' = "exited"
    /\ UNCHANGED <<run, file, fileAtStart, results, df, out, writes>>

\* except Exception: report, save_results_to_csv([]) with its own failure
\* swallowed, exit(1).
Except(io) ==
    /\ pc = "except"
    /\ LET r == SaveResultsToCsv(<<>>, file, run, io)
       IN  /\ file' = r.file
           /\ log' = Append(log, "run_failed") \o r.log
           /\ writes' = writes \o r.calls
    /\ exitCode' = "1"
    /\ pc' = "exited"
    /\ UNCHANGED <<run, fileAtStart, results, df, out>>

\* Runs on storage that accepts every write.
Next ==
    \/ Start
    \/ \E ok \in BOOLEAN : ClientInit(ok)
    \/ \E resp \in Responses : FindCheapDestinations(resp)
    \/ MainBranch
    \/ SaveData("ok")
    \/ SaveEmpty("ok")
    \/ Report
    \/ Finish
    \/ Except("ok")

Spec == Init /\ [][Next]_vars

\* Runs on storage where any to_csv call may fail with an I/O error.
IOOutcomes == {"ok", "fail"}

NextIO ==
    \/ Start
    \/ \E ok \in BOOLEAN : ClientInit(ok)
    \/ \E resp \in Responses : FindCheapDestinations(resp)
    \/ MainBranch
    \/ \E io \in IOOutcomes : SaveData(io)
    \/ \E io \in IOOutcomes : SaveEmpty(io)
    \/ Report
    \/ Finish
    \/ \E io \in IOOutcomes : Except(io)

SpecIO == Init /\ [][NextIO]_vars

\* -------------------------------------------- analyze_and_display on its own
\* Records a caller can hand to analyze_and_display: real records with
\* numeric prices, one whose price is still the API's string, the placeholder.
Record(dest, price) ==
    [destination |-> dest, departure_date |-> "2025-05-01",
     return_date |-> "2025-05-08", price |-> price, search_date |-> 0]

ReportRows ==
    { Record("TYO", Num(100)), Record("BKK", Num(300)), Record("SEL", Str(9)),
      SentinelRow(0) }

\* Rows past the first VariedLen come from a smaller set, so that frames of
\* more than TopN rows stay within reach.
TailRows == { Record("HKT", Num(200)), SentinelRow(0) }

ReportInit ==
    /\ pc = "given"
    /\ df \in {None, List(<<>>)}
    /\ run = 0
    /\ file = NoFile
    /\ fileAtStart = NoFile
    /\ results = None
    /\ out = NoOutput
    /\ log = <<>>
    /\ exitCode = "running"
    /\ writes = <<>>

\* The caller's DataFrame grows by one row.
GiveRow(r) ==
    /\ pc = "given"
    /\ df # None
    /\ Len(df.v) < MaxRows
    /\ r \in (IF Len(df.v) < VariedLen THEN ReportRows ELSE TailRows)
    /\ df' = List(Append(df.v, r))
    /\ UNCHANGED <<pc, run, file, fileAtStart, results, out, log, exitCode, writes>>

\* analyze_and_display(df), returning or raising.
ReportCall ==
    /\ pc = "given"
    /\ LET a == AnalyzeAndDisplay(df)
       IN  /\ out' = [listing |-> a.listing, stats |-> a.stats]
           /\ log' = a.log
           /\ pc' = IF a.raised THEN "raised" ELSE "returned"
    /\ UNCHANGED <<run, file, fileAtStart, results, df, exitCode, writes>>

ReportNext ==
    \/ \E r \in ReportRows \cup TailRows : GiveRow(r)
    \/ ReportCall

SpecReport == ReportInit /\ [][ReportNext]_vars

\* =================================================================== claims
InLog(tag) == \E i \in DOMAIN log : log[i] = tag
RowIndices(f) == { i \in DOMAIN f.lines : f.lines[i].kind = "row" }
RowCount(f) == Cardinality(RowIndices(f))
HeaderCount(f) == Cardinality({ i \in DOMAIN f.lines : f.lines[i].kind = "header" })
IsSentinelLine(l) == l.kind = "row" /\ l.destination = NoDataFound /\ l.price = 0
SentinelIndices(f) == { i \in DOMAIN f.lines : IsSentinelLine(f.lines[i]) }
IsPrefix(s, u) == Len(s) <= Len(u) /\ SubSeq(u, 1, Len(s)) = s
\* The file is a header and the one placeholder row.
HoldsOnlySentinel(f) ==
    /\ f.exists
    /\ Len(f.lines) = 2
    /\ f.lines[1].kind = "header"
    /\ IsSentinelLine(f.lines[2])

\* C1: whichever branch a run takes (credential failure, search failure,
\* empty result, non-empty result, failure while writing the batch), the
\* file cheap_flights.csv exists when the process has ended.
C1_FileExistsAtExit == pc = "exited" => file.exists

\* C2 as claimed: every data row the file held when a run started is still
\* there, unchanged and at the same position, when the run has ended.
C2_AppendOnlyAcrossRuns ==
    pc = "exited" =>
        \A i \in RowIndices(fileAtStart) :
            i \in DOMAIN file.lines /\ file.lines[i] = fileAtStart.lines[i]

\* C2 as amended: a step that changes the file either only adds lines at the
\* end of it (the write of a non-empty batch) or leaves it holding a header
\* and the single placeholder row (the write of the placeholder).
C2_AppendOnlyExceptSentinel ==
    [][file' # file => (IsPrefix(file.lines, file'.lines) \/ HoldsOnlySentinel(file'))]_vars

\* C2 witness: a run has ended that added lines below the lines it found.
C2_Witness ==
    /\ pc = "exited"
    /\ RowCount(fileAtStart) >= 1
    /\ Len(file.lines) > Len(fileAtStart.lines)
    /\ IsPrefix(fileAtStart.lines, file.lines)

\* A run is a successful non-empty run when the search returned offers, the
\* Persister returned the batch it stored, and the process ended with 0.
SuccessfulNonEmptyRun ==
    /\ pc = "exited"
    /\ exitCode = "0"
    /\ Truthy(results)
    /\ df # None

C4_EmptyRunLeavesSentinel ==
    (pc = "exited" /\ results = List(<<>>)) =>
        /\ file.exists
        /\ RowCount(file) = 1
        /\ \A i \in RowIndices(file) : IsSentinelLine(file.lines[i])

\* C4 witness: an empty run has ended on a file that held two or more rows.
C4_Witness ==
    /\ pc = "exited"
    /\ results = List(<<>>)
    /\ RowCount(fileAtStart) >= 2
    /\ HoldsOnlySentinel(file)

\* The lines a call of save_results_to_csv added for the n offers it stored.
WrittenLines(n) == SubSeq(file.lines, Len(file.lines) - n + 1, Len(file.lines))

\* w is the lines of 'given' ordered by price as a number, equal prices in
\* the order given.
IsStableNumericSort(w, given) ==
    /\ Len(w) = Len(given)
    /\ \E p \in [DOMAIN w -> DOMAIN w] :
        /\ \A k, l \in DOMAIN w : k # l => p[k] # p[l]
        /\ \A k \in DOMAIN w : w[k] = given[p[k]]
        /\ \A k, l \in DOMAIN w :
            k < l => \/ w[k].price < w[l].price
                     \/ w[k].price = w[l].price /\ p[k] < p[l]

\* C5: the rows one call of save_results_to_csv writes for a non-empty batch
\* are non-decreasing in price compared as numbers, offers of equal price in
\* their original order.
C5_BatchSortedByNumericPrice ==
    (pc = "report" /\ df # None) =>
        IsStableNumericSort(WrittenLines(Len(results.v)), CsvLines(Flights(results.v, run)))

\* ---- the Reporter
Reported == pc \in {"returned", "raised"}
GivenRows == IF df = None THEN <<>> ELSE df.v
\* Positions of the real records among the rows given.
RealIndices == { i \in DOMAIN GivenRows : GivenRows[i].destination # NoDataFound }
AllNumeric(I) == \A i \in I : GivenRows[i].price.t = "num"
Min2(a, b) == IF a < b THEN a ELSE b

RECURSIVE SumOfPrices(_)
SumOfPrices(I) ==
    IF I = {} THEN 0
    ELSE LET i == CHOOSE j \in I : TRUE
         IN  GivenRows[i].price.v + SumOfPrices(I \ {i})

\* The statistics block shows count, minimum, maximum and mean (to the
\* nearest hundredth) of the prices at the positions I.
StatsAreOver(I) ==
    /\ out.stats.t = "full"
    /\ out.stats.count = Cardinality(I)
    /\ \E i \in I : out.stats.min = 100 * GivenRows[i].price.v
    /\ \A i \in I : out.stats.min <= 100 * GivenRows[i].price.v
    /\ \E i \in I : out.stats.max = 100 * GivenRows[i].price.v
    /\ \A i \in I : out.stats.max >= 100 * GivenRows[i].price.v
    /\ 2 * (out.stats.mean * Cardinality(I) - 100 * SumOfPrices(I)) <= Cardinality(I)
    /\ 2 * (100 * SumOfPrices(I) - out.stats.mean * Cardinality(I)) <= Cardinality(I)

\* Entry k of the listing shows the k-th of the rows at the positions I.
ListingFollows(I) ==
    \A k \in DOMAIN out.listing :
        \E i \in I :
            /\ Cardinality({ j \in I : j <= i }) = k
            /\ out.listing[k].destination = GivenRows[i].destination
            /\ out.listing[k].price = 100 * GivenRows[i].price.v

\* C6: given n >= 1 non-sentinel records in any order, the Reporter lists
\* min(10, n) of them in non-decreasing price order and reports count n and
\* the minimum, maximum and mean price of all n.
C6_ListingAscendingWithStats ==
    (/\ Reported
     /\ Len(GivenRows) >= 1
     /\ RealIndices = DOMAIN GivenRows
     /\ AllNumeric(RealIndices)) =>
        /\ Len(out.listing) = Min2(TopN, Len(GivenRows))
        /\ \A k, l \in DOMAIN out.listing :
            k < l => out.listing[k].price <= out.listing[l].price
        /\ StatsAreOver(RealIndices)

\* C9: rows whose destination is 'No data found' are removed before any
\* computation: the listing shows real records only (the first ones, at
\* most 10), count, minimum, maximum and mean are those of the real records,
\* and when no real record remains a notice is printed and neither listing
\* nor statistics.
C9_SentinelRowsExcluded ==
    Reported =>
        /\ ListingFollows(RealIndices)
        /\ out.stats.t # "none" => out.stats.count = Cardinality(RealIndices)
        /\ out.stats.t = "full" => StatsAreOver(RealIndices)
        /\ (RealIndices # {} /\ AllNumeric(RealIndices)) =>
            /\ Len(out.listing) = Min2(TopN, Cardinality(RealIndices))
            /\ StatsAreOver(RealIndices)
        /\ RealIndices = {} =>
            /\ out = NoOutput
            /\ log \in { <<"no_data">>, <<"no_valid_data">> }
            /\ pc = "returned"

\* C9 witness: the Reporter has returned statistics for a frame that holds
\* placeholder rows among more than TopN real records.
C9_Witness ==
    /\ pc = "returned"
    /\ out.stats.t = "full"
    /\ Cardinality(RealIndices) > TopN - 1
    /\ \E i \in DOMAIN GivenRows : i \notin RealIndices /\ i < Len(GivenRows)

\* ---- the Orchestrator
SearchFailed == InLog("api_error") \/ InLog("unexpected_error")

\* C7: when the search fails the run is a run without results: the Persister
\* is called with an empty sequence and the file ends up holding the single
\* placeholder row, the Reporter is not run, a 'nothing found' notice is
\* printed and the exit code is 0.
C7_SearchFailureIsNoResults ==
    (pc = "exited" /\ SearchFailed) =>
        /\ InLog("no_flight_data")
        /\ HoldsOnlySentinel(file)
        /\ out = NoOutput
        /\ ~InLog("top_10") /\ ~InLog("statistics") /\ ~InLog("no_data")
        /\ InLog("nothing_found")
        /\ exitCode = "0"

\* C7 witness: a run whose search ended in a ResponseError has ended on a
\* file that held rows of earlier runs.
C7_Witness ==
    /\ pc = "exited"
    /\ InLog("api_error")
    /\ RowCount(fileAtStart) >= 2
    /\ exitCode = "0"

\* C8: when a write of the output file fails (of the batch or of the
\* placeholder) the failure is logged, a fallback write of the placeholder is
\* attempted, and the process exits non-zero if the fallback fails too.
C8_WriteFailureFallsBack ==
    (pc = "exited" /\ Len(writes) >= 1 /\ writes[1] = "fail") =>
        /\ InLog("save_error") \/ InLog("run_failed")
        /\ Len(writes) = 2
        /\ writes[2] = "fail" => exitCode = "1"

\* C10: the file holds at most one placeholder row, directly under the
\* header; a non-empty run leaves a placeholder it finds where it is and
\* appends below it, only an empty (or failed) search replaces it.
C10_OneSentinelKeptByNonEmptyRuns ==
    /\ Cardinality(SentinelIndices(file)) <= 1
    /\ SentinelIndices(file) # {} =>
        SentinelIndices(file) = {2} /\ file.lines[1].kind = "header"
    /\ (pc = "exited" /\ Truthy(results) /\ SentinelIndices(fileAtStart) # {}) =>
        IsPrefix(fileAtStart.lines, file.lines)

====
